---- MODULE Spec2Model ----
(***************************************************************************)
(* The product catalog API of src/server.js: an Express router whose       *)
(* handlers each issue ONE Mongoose call against the "products"            *)
(* collection, whose documents embed their variant list.                   *)
(*                                                                         *)
(* src/server.js holds two applications.  The first (lines 1-205) has the  *)
(* whole route surface, including the sku-addressed variant routes, and is *)
(* the one modelled here.  Of the second (lines 207-383) only the route    *)
(* GET /products/:id/variants is modelled, which the first one lacks.      *)
(*                                                                         *)
(* What Mongoose and MongoDB do for the calls the handlers make is part of *)
(* the model:                                                              *)
(*   - save() validates against the schema (required, min, enum), then     *)
(*     inserts;                                                            *)
(*   - updateOne / findByIdAndUpdate cast their arguments but run no       *)
(*     validators unless runValidators is passed (it is not, lines 124,    *)
(*     138, 156, 187);                                                     *)
(*   - `unique: true` (line 20) is no validator: it builds a unique index  *)
(*     on variants.sku.  A unique multikey index rejects a key that        *)
(*     another DOCUMENT holds; it does not compare the elements of one     *)
(*     document's array with each other.  A document whose array is      *)
(*     empty has no value at variants.sku and is indexed under null, so    *)
(*     the index admits one such document;                                 *)
(*   - an update that leaves the document as it was reports                *)
(*     matchedCount 1, modifiedCount 0;                                    *)
(*   - the positional operator $ addresses the first array element that    *)
(*     matches the query; $pull removes every element that matches;        *)
(*   - a string that is no ObjectId makes the cast of _id throw CastError. *)
(* Every store call is one atomic single-document operation, so a handler  *)
(* is one atomic step on the store; ConcSpec splits the stock handler at   *)
(* its await to show two requests in flight.                               *)
(***************************************************************************)
EXTENDS Integers, Sequences, FiniteSets, TLC

VARIABLES
    products,   \* the collection: documents in insertion (natural) order
    nextId,     \* the next _id the driver generates
    now,        \* Date.now, as a logical clock
    resp,       \* the response to the last request handled
    inflight    \* per client: a stock request split at its await

vars == <<products, nextId, now, resp, inflight>>

-----------------------------------------------------------------------------
(* Bounds *)

\* products ever created
MaxProducts == 2
\* length of a variant list that a push may still extend
MaxVariants == 2
\* value of the logical clock: successful mutations in a run
MaxTime == 4

-----------------------------------------------------------------------------
(* Schemas and inputs *)

\* line 32: the enum of category
Categories == {"Electronics", "Clothing", "Books", "Home & Garden", "Sports"}

\* lines 16-22: the paths of variantSchema that are `required`
VariantRequired == {"color", "size", "stock", "sku"}

\* lines 25-39: the paths of productSchema that are `required`
ProductRequired == {"name", "description", "base_price", "category", "brand"}

\* request path parameter :id.  Well-formed ids are the positive numbers;
\* BadId stands for every string that does not cast to an ObjectId.
BadId == 0

IsObjectId(id) == id >= 1

Ids == 0 .. (MaxProducts + 1)

Skus == {"a", "b"}

Colors == {"Red", "Blue"}

\* request bodies of POST /products/:id/variants and elements of `variants`
vRedA == [color |-> "Red", size |-> "M", stock |-> 1, sku |-> "a"]

vBlueB == [color |-> "Blue", size |-> "L", stock |-> 0, sku |-> "b",
           price_adjustment |-> 5]

vBlueA == [color |-> "Blue", size |-> "L", stock |-> 2, sku |-> "a",
           price_adjustment |-> 0]

vNegB == [color |-> "Red", size |-> "M", stock |-> -1, sku |-> "b"]

VariantDrafts == {vRedA, vBlueB, vBlueA, vNegB}

\* req.body.stock of PATCH /products/variants/:sku/stock
StockInputs == {-1, 0, 1}

\* `variants` of the request bodies: empty, one element, two skus, one sku
\* twice, a negative stock
VariantLists ==
    {<<>>, <<vRedA>>, <<vBlueB>>, <<vRedA, vBlueB>>, <<vRedA, vBlueA>>, <<vNegB>>}

BaseDraft(vs) ==
    [name |-> "T-Shirt", description |-> "cotton", base_price |-> 25,
     category |-> "Clothing", brand |-> "Acme", tags |-> <<"new">>, variants |-> vs]

\* request bodies of POST /products
ProductDrafts ==
    {BaseDraft(vs) : vs \in VariantLists}
    \cup {[description |-> "cotton", base_price |-> 25, category |-> "Clothing",
           brand |-> "Acme", variants |-> <<>>],
          [BaseDraft(<<>>) EXCEPT !.base_price = -1],
          [BaseDraft(<<>>) EXCEPT !.category = "Footwear"]}

\* request bodies of PUT /products/:id
UpdateBodies ==
    {[name |-> "Polo"], [base_price |-> -5], [category |-> "Footwear"]}
    \cup {[variants |-> vs] : vs \in VariantLists}

-----------------------------------------------------------------------------
(* Mongoose: casting and validation *)

\* cast of one element to variantSchema: defaults applied (line 21)
CastVariant(d) ==
    [color |-> d.color, size |-> d.size, stock |-> d.stock, sku |-> d.sku,
     price_adjustment |->
        IF "price_adjustment" \in DOMAIN d THEN d.price_adjustment ELSE 0]

CastVariants(ds) == [i \in DOMAIN ds |-> CastVariant(ds[i])]

\* validators of variantSchema: required paths, stock min 0 (line 19)
ValidVariant(d) ==
    /\ VariantRequired \subseteq DOMAIN d
    /\ d.stock >= 0

\* validators of productSchema, run by save(): required paths, base_price
\* min 0 (line 28), category enum (line 32), each embedded variant
ValidProduct(d) ==
    /\ ProductRequired \subseteq DOMAIN d
    /\ d.base_price >= 0
    /\ d.category \in Categories
    /\ \A i \in DOMAIN d.variants : ValidVariant(d.variants[i])

\* new Product(body): defaults of tags, created_at, updated_at (lines 36-38)
NewProduct(id, t, d) ==
    [_id |-> id, name |-> d.name, description |-> d.description,
     base_price |-> d.base_price, category |-> d.category, brand |-> d.brand,
     tags |-> IF "tags" \in DOMAIN d THEN d.tags ELSE <<>>,
     variants |-> CastVariants(d.variants),
     created_at |-> t, updated_at |-> t]

-----------------------------------------------------------------------------
(* MongoDB: the collection and its single-document operations *)

SkusOf(vs) == {vs[i].sku : i \in DOMAIN vs}

IdsOf(ps) == {ps[i]._id : i \in DOMAIN ps}

Min(S) == CHOOSE x \in S : \A y \in S : x <= y

\* position of the document with this _id, 0 when there is none
PosOfId(ps, id) ==
    LET hits == {i \in DOMAIN ps : ps[i]._id = id}
    IN IF hits = {} THEN 0 ELSE Min(hits)

\* query {'variants.sku': sku}: the first document with such an element
PosOfSku(ps, sku) ==
    LET hits == {i \in DOMAIN ps : sku \in SkusOf(ps[i].variants)}
    IN IF hits = {} THEN 0 ELSE Min(hits)

\* the key of a document that has no value at variants.sku
NullKey == "null"

\* the keys the index on variants.sku holds for a document with these
\* variants: the skus of its elements, null when it has no element
IndexKeys(vs) == IF Len(vs) = 0 THEN {NullKey} ELSE SkusOf(vs)

\* the unique index on variants.sku (line 20): writing a document with these
\* variants under this _id is a duplicate key when ANOTHER document holds
\* one of their keys
DuplicateKey(ps, id, vs) ==
    \E i \in DOMAIN ps :
        /\ ps[i]._id # id
        /\ IndexKeys(ps[i].variants) \cap IndexKeys(vs) # {}

\* SetStock gone wrong: the matched element is replaced by a subdocument
\* built anew, so its price_adjustment falls back to the default
SetStockReplace(vs, sku, n) ==
    LET first == Min({j \in DOMAIN vs : vs[j].sku = sku})
    IN [j \in DOMAIN vs |->
            IF j = first
            THEN CastVariant([color |-> vs[j].color, size |-> vs[j].size,
                              stock |-> n, sku |-> vs[j].sku])
            ELSE vs[j]]

\* SetStock gone wrong: 'variants.$[].stock', every element of the array
SetStockAll(vs, sku, n) == [j \in DOMAIN vs |-> [vs[j] EXCEPT !.stock = n]]

\* $set 'variants.$.stock': the first element matching the query
SetStock(vs, sku, n) ==
    LET first == Min({j \in DOMAIN vs : vs[j].sku = sku})
    IN [j \in DOMAIN vs |->
            IF j = first THEN [vs[j] EXCEPT !.stock = n] ELSE vs[j]]

\* $pull {variants: {sku}}: every element matching the condition goes
Pull(vs, sku) ==
    LET Keep(v) == v.sku # sku
    IN SelectSeq(vs, Keep)

\* $set of the top-level paths of the body (findByIdAndUpdate wraps the
\* body in $set); `variants` is replaced wholesale, cast element by element
MergeSet(p, body) ==
    [f \in DOMAIN p |->
        IF f \in DOMAIN body
        THEN (IF f = "variants" THEN CastVariants(body.variants) ELSE body[f])
        ELSE p[f]]

\* RemoveAt gone wrong: the filter is lost and the first document goes
RemoveFirst(ps, k) == Tail(ps)

\* findByIdAndDelete: the collection without the document at this position
RemoveAt(ps, k) == [i \in 1 .. (Len(ps) - 1) |-> IF i < k THEN ps[i] ELSE ps[i + 1]]

\* filters of the list routes
WithCategory(ps, c) ==
    LET Is(p) == p.category = c
    IN SelectSeq(ps, Is)

WithColor(ps, c) ==
    LET Has(p) == \E i \in DOMAIN p.variants : p.variants[i].color = c
    IN SelectSeq(ps, Has)

\* projection of /products/variants/details
Details(ps) ==
    [i \in DOMAIN ps |->
        [_id |-> ps[i]._id, name |-> ps[i].name, category |-> ps[i].category,
         variants |-> [j \in DOMAIN ps[i].variants |->
            [color |-> ps[i].variants[j].color, size |-> ps[i].variants[j].size,
             stock |-> ps[i].variants[j].stock, sku |-> ps[i].variants[j].sku]]]]

-----------------------------------------------------------------------------
(* The store calls, as the driver reports them *)

\* Product.updateOne({'variants.sku': sku}, {$set: {'variants.$.stock': n}})
UpdateOneSetStock(ps, sku, n) ==
    LET k == PosOfSku(ps, sku)
    IN IF k = 0
       THEN [store |-> ps, matchedCount |-> 0, modifiedCount |-> 0]
       ELSE LET vs == SetStock(ps[k].variants, sku, n)
            IN [store |-> [ps EXCEPT ![k].variants = vs],
                matchedCount |-> 1,
                modifiedCount |-> IF vs = ps[k].variants THEN 0 ELSE 1]

\* Product.updateOne({'variants.sku': sku}, {$pull: {variants: {sku: sku}}});
\* error is what it throws
UpdateOnePull(ps, sku) ==
    LET k == PosOfSku(ps, sku)
    IN IF k = 0
       THEN [store |-> ps, modifiedCount |-> 0, error |-> "none"]
       ELSE IF DuplicateKey(ps, ps[k]._id, Pull(ps[k].variants, sku))
       THEN [store |-> ps, modifiedCount |-> 0, error |-> "E11000"]
       ELSE [store |-> [ps EXCEPT ![k].variants = Pull(ps[k].variants, sku)],
             modifiedCount |-> 1, error |-> "none"]

\* Product.updateOne({_id: id}, {$push: {variants: d}}); error is what it throws
UpdateOnePush(ps, id, d) ==
    LET k == PosOfId(ps, id)
    IN IF ~IsObjectId(id)
       THEN [store |-> ps, modifiedCount |-> 0, error |-> "CastError"]
       ELSE IF k = 0
       THEN [store |-> ps, modifiedCount |-> 0, error |-> "none"]
       ELSE IF DuplicateKey(ps, id, <<CastVariant(d)>>)
       THEN [store |-> ps, modifiedCount |-> 0, error |-> "E11000"]
       ELSE [store |-> [ps EXCEPT ![k].variants = Append(@, CastVariant(d))],
             modifiedCount |-> 1, error |-> "none"]

-----------------------------------------------------------------------------
(* The handlers: the store after the request, and the response *)

None == "none"

\* res.status(..).json({error: m}), res.json({message: m}), res.json(doc);
\* a body is kept as a sequence: the array of a list route, or one object
Error(m) == <<[error |-> m]>>

Message(m) == <<[message |-> m]>>

Reply(ps, status, body) == [store |-> ps, status |-> status, body |-> body]

\* POST /products, lines 51-59
CreateRes(ps, id, t, d) ==
    IF ~ValidProduct(d) THEN Reply(ps, 400, Error("ValidationError"))
    ELSE IF DuplicateKey(ps, id, CastVariants(d.variants))
    THEN Reply(ps, 400, Error("E11000"))
    ELSE Reply(Append(ps, NewProduct(id, t, d)), 201, <<NewProduct(id, t, d)>>)

\* GET /products/:id, lines 109-119
GetByIdRes(ps, id) ==
    IF ~IsObjectId(id) THEN Reply(ps, 500, Error("CastError"))
    ELSE IF PosOfId(ps, id) = 0 THEN Reply(ps, 404, Error("Product not found"))
    ELSE Reply(ps, 200, <<ps[PosOfId(ps, id)]>>)

\* GET /products/:id/variants, lines 301-309
GetVariantsRes(ps, id) ==
    IF ~IsObjectId(id) THEN Reply(ps, 400, Error("Invalid product ID"))
    ELSE IF PosOfId(ps, id) = 0 THEN Reply(ps, 404, Error("Product not found"))
    ELSE Reply(ps, 200, ps[PosOfId(ps, id)].variants)

\* PUT /products/:id, lines 122-132
UpdateProductRes(ps, id, body) ==
    LET k == PosOfId(ps, id)
    IN IF ~IsObjectId(id) THEN Reply(ps, 400, Error("CastError"))
       ELSE IF k = 0 THEN Reply(ps, 404, Error("Product not found"))
       ELSE IF DuplicateKey(ps, id, MergeSet(ps[k], body).variants)
       THEN Reply(ps, 400, Error("E11000"))
       ELSE Reply([ps EXCEPT ![k] = MergeSet(ps[k], body)], 200,
                  <<MergeSet(ps[k], body)>>)

\* lines 143-147: the status the stock handler derives from the result
StockStatus(result) == IF result.modifiedCount = 0 THEN 404 ELSE 200

\* PATCH /products/variants/:sku/stock, lines 135-151
UpdateVariantStockRes(ps, sku, n) ==
    LET r == UpdateOneSetStock(ps, sku, n)
    IN IF StockStatus(r) = 404 THEN Reply(r.store, 404, Error("Variant not found"))
       ELSE Reply(r.store, 200, Message("Variant stock updated successfully"))

\* POST /products/:id/variants, lines 154-169
AddVariantRes(ps, id, d) ==
    LET r == UpdateOnePush(ps, id, d)
    IN IF r.error # None THEN Reply(ps, 400, Error(r.error))
       ELSE IF r.modifiedCount = 0 THEN Reply(ps, 404, Error("Product not found"))
       ELSE Reply(r.store, 201, Message("Variant added successfully"))

\* DELETE /products/:id, lines 172-182
DeleteProductRes(ps, id) ==
    LET k == PosOfId(ps, id)
    IN IF ~IsObjectId(id) THEN Reply(ps, 500, Error("CastError"))
       ELSE IF k = 0 THEN Reply(ps, 404, Error("Product not found"))
       ELSE Reply(RemoveAt(ps, k), 200, Message("Product deleted successfully"))

\* DELETE /products/variants/:sku, lines 185-200
RemoveVariantRes(ps, sku) ==
    LET r == UpdateOnePull(ps, sku)
    IN IF r.error # None THEN Reply(ps, 500, Error(r.error))
       ELSE IF r.modifiedCount = 0 THEN Reply(ps, 404, Error("Variant not found"))
       ELSE Reply(r.store, 200, Message("Variant deleted successfully"))

-----------------------------------------------------------------------------
(* State machine *)

Clients == {"c1", "c2"}

Idle == [pc |-> "idle", sku |-> None, stock |-> 0, matchedCount |-> 0,
         modifiedCount |-> 0, status |-> 0, overlapped |-> FALSE]

\* req.body of a request that carries none
NoBody == [f \in {} |-> None]

\* the last response, with the request it answers: its route, its :id (-1
\* when the route has none), its :sku, :color or :category, and its body
Response(op, id, arg, input, status, body) ==
    [op |-> op, id |-> id, arg |-> arg, input |-> input, status |-> status,
     body |-> body]

Init ==
    /\ products = <<>>
    /\ nextId = 1
    /\ now = 1
    /\ resp = Response(None, -1, None, NoBody, 0, <<>>)
    /\ inflight = [c \in Clients |-> Idle]

\* a handler that writes: the store it leaves, its response, and the clock,
\* which has advanced by the time of the next request when the store changed
Write(op, id, arg, input, r) ==
    /\ now < MaxTime
    /\ products' = r.store
    /\ now' = IF r.store = products THEN now ELSE now + 1
    /\ resp' = Response(op, id, arg, input, r.status, r.body)

\* a handler that reads
Read(op, id, arg, r) ==
    /\ resp' = Response(op, id, arg, NoBody, r.status, r.body)
    /\ UNCHANGED <<products, nextId, now, inflight>>

Create(d) ==
    /\ nextId <= MaxProducts
    /\ Write("create", nextId, None, d, CreateRes(products, nextId, now, d))
    /\ nextId' = IF CreateRes(products, nextId, now, d).status = 201
                 THEN nextId + 1 ELSE nextId
    /\ UNCHANGED inflight

\* GET /products, lines 62-69
ListAll == Read("list", -1, None, Reply(products, 200, products))

\* GET /products/category/:category, lines 72-79
ListByCategory(c) ==
    Read("listByCategory", -1, c, Reply(products, 200, WithCategory(products, c)))

\* GET /products/variants/details, lines 82-96
VariantDetails == Read("details", -1, None, Reply(products, 200, Details(products)))

\* GET /products/variants/color/:color, lines 99-106
ListByColor(c) ==
    Read("listByColor", -1, c, Reply(products, 200, WithColor(products, c)))

GetById(id) == Read("getById", id, None, GetByIdRes(products, id))

GetVariants(id) == Read("getVariants", id, None, GetVariantsRes(products, id))

UpdateProduct(id, body) ==
    /\ Write("updateProduct", id, None, body, UpdateProductRes(products, id, body))
    /\ UNCHANGED <<nextId, inflight>>

UpdateVariantStock(sku, n) ==
    /\ Write("updateVariantStock", -1, sku, [stock |-> n],
             UpdateVariantStockRes(products, sku, n))
    /\ UNCHANGED <<nextId, inflight>>

AddVariant(id, d) ==
    /\ \A i \in DOMAIN products :
          products[i]._id = id => Len(products[i].variants) < MaxVariants
    /\ Write("addVariant", id, None, d, AddVariantRes(products, id, d))
    /\ UNCHANGED <<nextId, inflight>>

DeleteProduct(id) ==
    /\ Write("deleteProduct", id, None, NoBody, DeleteProductRes(products, id))
    /\ UNCHANGED <<nextId, inflight>>

RemoveVariantBySku(sku) ==
    /\ Write("removeVariantBySku", -1, sku, NoBody, RemoveVariantRes(products, sku))
    /\ UNCHANGED <<nextId, inflight>>

Next ==
    \/ \E d \in ProductDrafts : Create(d)
    \/ ListAll
    \/ \E c \in Categories : ListByCategory(c)
    \/ VariantDetails
    \/ \E c \in Colors : ListByColor(c)
    \/ \E id \in Ids : GetById(id)
    \/ \E id \in Ids : GetVariants(id)
    \/ \E id \in Ids, body \in UpdateBodies : UpdateProduct(id, body)
    \/ \E sku \in Skus, n \in StockInputs : UpdateVariantStock(sku, n)
    \/ \E id \in Ids, d \in VariantDrafts : AddVariant(id, d)
    \/ \E id \in Ids : DeleteProduct(id)
    \/ \E sku \in Skus : RemoveVariantBySku(sku)

Spec == Init /\ [][Next]_vars

-----------------------------------------------------------------------------
(* Two stock requests in flight.  The stock handler, split where it awaits *)
(* the store: the request is received and the call issued (lines 136-141), *)
(* the store applies it, the handler resumes and responds (lines 143-147). *)
(* Each client sends one request.  `overlapped` records, for the claims,   *)
(* that the other request was awaiting the store at the same time.         *)

SendStock(c, sku, n) ==
    /\ inflight[c].pc = "idle"
    /\ inflight' =
        [d \in Clients |->
            IF d = c
            THEN [Idle EXCEPT !.pc = "await", !.sku = sku, !.stock = n,
                     !.overlapped = \E e \in Clients \ {c} : inflight[e].pc = "await"]
            ELSE IF inflight[d].pc = "await"
            THEN [inflight[d] EXCEPT !.overlapped = TRUE]
            ELSE inflight[d]]
    /\ UNCHANGED <<products, nextId, now, resp>>

ExecStock(c) ==
    /\ inflight[c].pc = "await"
    /\ now < MaxTime
    /\ LET r == UpdateOneSetStock(products, inflight[c].sku, inflight[c].stock)
       IN /\ products' = r.store
          /\ now' = IF r.store = products THEN now ELSE now + 1
          /\ inflight' = [inflight EXCEPT ![c].pc = "resumed",
                                          ![c].matchedCount = r.matchedCount,
                                          ![c].modifiedCount = r.modifiedCount]
    /\ UNCHANGED <<nextId, resp>>

ReplyStock(c) ==
    /\ inflight[c].pc = "resumed"
    /\ inflight' = [inflight EXCEPT ![c].pc = "done",
                                    ![c].status = StockStatus(inflight[c])]
    /\ UNCHANGED <<products, nextId, now, resp>>

ConcNext ==
    \/ \E d \in ProductDrafts : Create(d)
    \/ \E c \in Clients, sku \in Skus, n \in StockInputs : SendStock(c, sku, n)
    \/ \E c \in Clients : ExecStock(c)
    \/ \E c \in Clients : ReplyStock(c)

ConcSpec == Init /\ [][ConcNext]_vars

-----------------------------------------------------------------------------
(* Claims *)

\* every sku held by some variant of the store
StoreSkus(ps) == UNION {SkusOf(ps[i].variants) : i \in DOMAIN ps}

\* C1: in every state that create, addVariant and updateProduct requests
\* reach, no two variants of the store share a sku, in different products
\* or in one product's list (so a create or an addVariant that would bring
\* in a second variant with a sku has not gone through).
C1_SkuUniqueInStore ==
    \A i, k \in DOMAIN products :
         \A j \in DOMAIN products[i].variants, l \in DOMAIN products[k].variants :
            <<i, j>> # <<k, l>> =>
                products[i].variants[j].sku # products[k].variants[l].sku

\* C2: a successful updateVariantStock(sku, n) changes nothing but the stock
\* of the matched variant: its other fields, its siblings (content and
\* order), the parent's fields other than updated_at and the other products
\* are as before.
C2_StockUpdateFrame ==
    \A sku \in Skus, n \in StockInputs :
        LET r == UpdateVariantStockRes(products, sku, n)
        IN r.status = 200 =>
            /\ Len(r.store) = Len(products)
            /\ \E k \in DOMAIN products : \E j \in DOMAIN products[k].variants :
                /\ products[k].variants[j].sku = sku
                /\ \A i \in DOMAIN products \ {k} : r.store[i] = products[i]
                /\ DOMAIN r.store[k] = DOMAIN products[k]
                /\ \A f \in DOMAIN products[k] \ {"variants", "updated_at"} :
                      r.store[k][f] = products[k][f]
                /\ Len(r.store[k].variants) = Len(products[k].variants)
                /\ \A l \in DOMAIN products[k].variants \ {j} :
                      r.store[k].variants[l] = products[k].variants[l]
                /\ DOMAIN r.store[k].variants[j] = DOMAIN products[k].variants[j]
                /\ \A f \in DOMAIN products[k].variants[j] \ {"stock"} :
                      r.store[k].variants[j][f] = products[k].variants[j][f]

\* a stock update has answered 200 on a product with a sibling variant,
\* beside another product
C2_Witness ==
    /\ resp.op = "updateVariantStock"
    /\ resp.status = 200
    /\ Len(products) >= 2
    /\ \E k \in DOMAIN products :
          /\ resp.arg \in SkusOf(products[k].variants)
          /\ Len(products[k].variants) >= 2

\* C3: the stock of every variant is >= 0 in every state that create,
\* updateProduct, addVariant and updateVariantStock requests reach, and an
\* updateVariantStock of an existing sku to a negative stock is answered 400.
C3_StockNeverNegative ==
    /\ \A i \in DOMAIN products : \A j \in DOMAIN products[i].variants :
          products[i].variants[j].stock >= 0
    /\ (/\ resp.op = "updateVariantStock"
        /\ resp.input.stock < 0
        /\ resp.arg \in StoreSkus(products)) => resp.status = 400

\* C4: a successful addVariant(id, d) followed at once by
\* removeVariantBySku(d.sku) leaves every product's variant list (elements
\* and order) as it was before the addVariant.
C4_AddThenRemoveRestores ==
    [][(/\ products' # products
        /\ resp'.op = "addVariant"
        /\ resp'.status = 201) =>
          LET r == RemoveVariantRes(products', resp'.input.sku)
          IN /\ r.status = 200
             /\ Len(r.store) = Len(products)
             /\ \A i \in DOMAIN products :
                   r.store[i].variants = products[i].variants]_vars

\* C5: whenever a product or one of its variants changes, its updated_at is
\* set to the time of that mutation, later than its value before.
C5_UpdatedAtAdvances ==
    [][\A id \in IdsOf(products) \cap IdsOf(products') :
          LET p == products[PosOfId(products, id)]
              q == products'[PosOfId(products', id)]
          IN p # q => /\ q.updated_at = now
                      /\ q.updated_at > p.updated_at]_vars

\* C6: getById with an id that is not well-formed answers 400, never 500;
\* with a well-formed id that matches no product it answers 404.
C6_GetByIdStatus ==
    resp.op = "getById" =>
        /\ ~IsObjectId(resp.id) => resp.status = 400
        /\ (IsObjectId(resp.id) /\ resp.id \notin IdsOf(products))
              => resp.status = 404

StockOf(ps, sku) ==
    LET vs == ps[PosOfSku(ps, sku)].variants
    IN vs[Min({j \in DOMAIN vs : vs[j].sku = sku})].stock

Executed(c) == inflight[c].pc \in {"resumed", "done"} /\ inflight[c].matchedCount = 1

\* C8: two concurrent updateVariantStock requests on one product: with
\* different skus both variants end with the stock their request wrote,
\* with the same sku the stock ends as the value of one of the two.
C8_ConcurrentStockUpdates ==
    \A c, d \in Clients :
        (/\ c # d
         /\ Executed(c)
         /\ Executed(d)
         /\ PosOfSku(products, inflight[c].sku) = PosOfSku(products, inflight[d].sku))
        => IF inflight[c].sku # inflight[d].sku
           THEN /\ StockOf(products, inflight[c].sku) = inflight[c].stock
                /\ StockOf(products, inflight[d].sku) = inflight[d].stock
           ELSE StockOf(products, inflight[c].sku)
                    \in {inflight[c].stock, inflight[d].stock}

\* both requests were awaiting the store together, hit two variants of one
\* product, changed them and answered 200
C8_Witness ==
    /\ \A c \in Clients :
          /\ inflight[c].pc = "done"
          /\ inflight[c].overlapped
          /\ inflight[c].status = 200
    /\ inflight["c1"].sku # inflight["c2"].sku
    /\ PosOfSku(products, inflight["c1"].sku) = PosOfSku(products, inflight["c2"].sku)

\* C9: a successful removeVariantBySku(sku) removes exactly one element, the
\* variant with that sku, from exactly one product: that list is one
\* shorter, the rest keep content and order, other products are unchanged.
C9_RemoveExactlyOne ==
    [][(/\ resp' # resp
        /\ resp'.op = "removeVariantBySku"
        /\ resp'.status = 200) =>
          /\ Len(products') = Len(products)
          /\ \E k \in DOMAIN products : \E j \in DOMAIN products[k].variants :
              /\ products[k].variants[j].sku = resp'.arg
              /\ \A i \in DOMAIN products \ {k} : products'[i] = products[i]
              /\ Len(products'[k].variants) = Len(products[k].variants) - 1
              /\ \A l \in DOMAIN products'[k].variants :
                    products'[k].variants[l] =
                       products[k].variants[IF l < j THEN l ELSE l + 1]]_vars

\* C10: for n >= 0, updateVariantStock(sku, n) answers 404 exactly when no
\* variant of the store has that sku; when one has, it answers 200 and that
\* variant's stock is n afterwards.
C10_StockNotFoundIffAbsent ==
    [][(/\ resp' # resp
        /\ resp'.op = "updateVariantStock"
        /\ resp'.input.stock >= 0) =>
          /\ (resp'.status = 404) <=> (resp'.arg \notin StoreSkus(products))
          /\ resp'.arg \in StoreSkus(products) =>
                /\ resp'.status = 200
                /\ StockOf(products', resp'.arg) = resp'.input.stock]_vars

====
